---- MODULE Spec2Model ----
(***************************************************************************)
(* A model of MCQDetect: the answer-sheet scanner (4-mcq_detect), the      *)
(* image straightener's marker detection (3-crop_straighted) and the       *)
(* template geometry of the sheet generator (1-sheet_generator).           *)
(*                                                                         *)
(* Images are modelled at the level of the contours OpenCV extracts from   *)
(* them: a contour carries its area, circularity, bounding box and the     *)
(* fill ratio of its bounding box.  Ratios (fill ratio, threshold,         *)
(* circularity) are integers in hundredths.                                *)
(***************************************************************************)
EXTENDS Integers, Sequences, FiniteSets, TLC

VARIABLES
    image,             \* the file at image_path: readable?, its contours, its size
    bubble_threshold,  \* MCQAnswerSheetScanner.bubble_threshold (hundredths)
    pc,                \* position of __main__ of mcq_scanner.py
    bubbles,           \* scan_answer_sheet: the list detect_bubbles returned
    organized_bubbles, \* scan_answer_sheet: the dict organize_bubbles_by_rows returned
    answers,           \* __main__: the dict scan_answer_sheet returned
    scan_error,        \* whether scan_answer_sheet printed "Error scanning answer sheet"
    main_error,        \* whether __main__ reached its "except Exception" handler
    printed,           \* what print_results wrote, per question
    results_file,      \* the JSON file save_results writes
    spc,               \* position of ImageStraightener.detect_corner_markers' caller
    corners,           \* what detect_corner_markers returned
    history,           \* the scan_answer_sheet calls made on the scanner object so far
    straightened_image, \* ImageStraightener.straightened_image
    output_file,       \* the file at output_path of save_straightened_image
    raised,            \* what the last call on the straightener raised
    calls,             \* the method calls made on the straightener so far
    csv_file,          \* the file at csv_file of export_answers_to_csv
    exported,          \* the rows the exports that succeeded have written, in call order
    export_message     \* what the last export_answers_to_csv call printed last

\* The state of the session, the straightener's later steps and the exporter,
\* which __main__ of mcq_scanner.py and detect_corner_markers leave alone.
protocolVars == <<straightened_image, output_file, raised, calls>>

restVars == <<history, protocolVars, csv_file, exported, export_message>>

vars == <<image, bubble_threshold, pc, bubbles, organized_bubbles,
          answers, scan_error, main_error, printed, results_file, spc, corners,
          restVars>>

scanVars == <<bubbles, organized_bubbles, answers, scan_error, main_error,
              printed, results_file>>

-----------------------------------------------------------------------------
(* Program constants *)

\* mcq_scanner.py
Tolerance == 20
MinBubbleArea == 100
MaxBubbleArea == 2000
MinCircularity == 60
RowsPerColumn == 25
RightColumnOffset == 26
NumQuestions == 50
DefaultThreshold == 60
choices == <<"A", "B", "C", "D">>

\* args.threshold: the values the model runs with
Thresholds == {50, DefaultThreshold}

\* mcq_generator.py
SheetWidth == 2480
SheetHeight == 3508
SheetMargin == 200
CircleRadius == 38
QuestionSpacing == 90
OptionSpacing == 120
GridStartY == 450
OptionOffsetX == 60

\* image_straightener.py
MinMarkerArea == 100
MaxMarkerArea == 2000
CornerRegionMargin == 100
FallbackMargin == 50
OutputWidth == 800
OutputHeight == 1000

-----------------------------------------------------------------------------
(* Helpers for Python lists and dicts *)

EmptyDict == [k \in {} |-> <<>>]

Min(S) == CHOOSE k \in S : \A j \in S : k <= j

RECURSIVE SumSeq(_)
SumSeq(s) == IF s = <<>> THEN 0 ELSE Head(s) + SumSeq(Tail(s))

\* list.sort(key=lambda b: b['center'][c]): a stable sort on one coordinate
\* (c = 1 for x, c = 2 for y).
RECURSIVE SortKeys(_, _, _)
SortKeys(s, c, keys) ==
    IF keys = {} THEN <<>>
    ELSE LET k == Min(keys)
         IN  SelectSeq(s, LAMBDA b : b.center[c] = k) \o SortKeys(s, c, keys \ {k})

SortByCoord(s, c) == SortKeys(s, c, {s[i].center[c] : i \in DOMAIN s})

-----------------------------------------------------------------------------
(* MCQAnswerSheetScanner.detect_bubbles *)

\* The filters of the loop body.  A contour of area >= 100 has a non-zero
\* perimeter, so the perimeter == 0 test never rejects a contour that passed
\* the area test.
IsBubble(c) ==
    /\ ~(c.area < MinBubbleArea \/ c.area > MaxBubbleArea)
    /\ ~(c.circ < MinCircularity)
    /\ ~(10 * c.bbox[3] < 7 * c.bbox[4] \/ 10 * c.bbox[3] > 13 * c.bbox[4])

BubbleOf(c) ==
    [center |-> <<c.bbox[1] + (c.bbox[3] \div 2), c.bbox[2] + (c.bbox[4] \div 2)>>,
     fill_ratio |-> c.fill]

\* The loop over the contours: those that pass, in order.
detect_bubbles(contours) ==
    LET kept == SelectSeq(contours, IsBubble)
    IN  [i \in DOMAIN kept |-> BubbleOf(kept[i])]

-----------------------------------------------------------------------------
(* MCQAnswerSheetScanner.organize_bubbles_by_rows *)

\* "if abs(y - last_y) > tolerance": the test that starts a new row.
Abs(n) == IF n < 0 THEN -n ELSE n

\* Mutants: the tolerance halved; the comparison made non-strict.
StartsNewRow_Halved(y, last_y) == 2 * Abs(y - last_y) > Tolerance

StartsNewRow_NonStrict(y, last_y) == Abs(y - last_y) >= Tolerance

StartsNewRow(y, last_y) == Abs(y - last_y) > Tolerance

\* "rows[current_row].append(bubble)" for each bubble of the list part.
AppendAll(rows, row, part) ==
    IF part = <<>> THEN rows
    ELSE IF row \in DOMAIN rows
         THEN [rows EXCEPT ![row] = @ \o part]
         ELSE [k \in DOMAIN rows \cup {row} |-> IF k = row THEN part ELSE rows[k]]

\* Mutant: last_y follows every bubble, so that a bubble is compared with the
\* one before it.
RECURSIVE WalkRows_Chained(_, _, _, _)
WalkRows_Chained(s, rows, current_row, last_y) ==
    IF s = <<>> THEN rows
    ELSE LET y == s[1].center[2]
             row == IF StartsNewRow(y, last_y) THEN current_row + 1 ELSE current_row
             rows1 == AppendAll(rows, row, <<s[1]>>)
         IN  IF DOMAIN rows1 = {} THEN rows1
             ELSE WalkRows_Chained(Tail(s), rows1, row, y)

\* The loop over the y-sorted list, one row per step: s is what is left of the
\* list, rows the dict so far, current_row and last_y the loop's variables.
\* The bubbles before the first one that passes the new-row test go to
\* current_row; that one sets last_y and opens row current_row + 1.
RECURSIVE WalkRows(_, _, _, _)
WalkRows(s, rows, current_row, last_y) ==
    IF s = <<>> THEN rows
    ELSE LET breaks == {i \in DOMAIN s : StartsNewRow(s[i].center[2], last_y)}
             k == IF breaks = {} THEN Len(s) + 1 ELSE Min(breaks)
             rows1 == AppendAll(rows, current_row, SubSeq(s, 1, k - 1))
         IN  \* the test has the row evaluated before the next one starts
             IF k > Len(s) \/ DOMAIN rows1 = {} THEN rows1
             ELSE WalkRows(SubSeq(s, k, Len(s)), rows1, current_row + 1, s[k].center[2])

\* Mutant: the rows are left in the order of the walk, not sorted by x.
organize_bubbles_by_rows_Unsorted(bs) ==
    IF bs = <<>> THEN EmptyDict
    ELSE LET sorted == SortByCoord(bs, 2)
         IN  WalkRows(sorted, EmptyDict, 0, sorted[1].center[2])

organize_bubbles_by_rows(bs) ==
    IF bs = <<>> THEN EmptyDict
    ELSE LET sorted == SortByCoord(bs, 2)
             rows == WalkRows(sorted, EmptyDict, 0, sorted[1].center[2])
         IN  [k \in DOMAIN rows |-> SortByCoord(rows[k], 1)]

-----------------------------------------------------------------------------
(* MCQAnswerSheetScanner.map_bubbles_to_questions *)

\* Mutant: a fill ratio equal to the threshold counts as marked.
IsMarked_AtLeast(fill_ratio, threshold) == fill_ratio >= threshold

\* "bubble['fill_ratio'] > self.bubble_threshold"
IsMarked(fill_ratio, threshold) == fill_ratio > threshold

\* Mutant: the loop without its break, the last marked bubble wins.
FirstMarked_NoBreak(side, threshold) ==
    LET n == IF Len(side) < 4 THEN Len(side) ELSE 4
        hits == {i \in 1..n : side[i].fill_ratio > threshold}
    IN  IF hits = {} THEN 0 ELSE CHOOSE i \in hits : \A j \in hits : j <= i

\* The inner for/break loop over side[:4]: the index of the first marked
\* bubble, 0 when the loop ends without a break.
FirstMarked(side, threshold) ==
    LET n == IF Len(side) < 4 THEN Len(side) ELSE 4
        hits == {i \in 1..n : IsMarked(side[i].fill_ratio, threshold)}
    IN  IF hits = {} THEN 0 ELSE Min(hits)

\* np.mean of integer coordinates, compared exactly: x < mean(xs).
BelowMean(x, xs) == x * Len(xs) < SumSeq(xs)

Xs(row) == [i \in DOMAIN row |-> row[i].center[1]]
Ys(row) == [i \in DOMAIN row |-> row[i].center[2]]

left_bubbles(row) == SelectSeq(row, LAMBDA b : BelowMean(b.center[1], Xs(row)))
right_bubbles(row) == SelectSeq(row, LAMBDA b : ~BelowMean(b.center[1], Xs(row)))

\* sorted(organized_bubbles.items(), key=mean y): a stable insertion into the
\* rows sorted so far, comparing the means sum/len exactly.
MeanLess(r1, r2) == SumSeq(Ys(r1)) * Len(r2) < SumSeq(Ys(r2)) * Len(r1)

RECURSIVE InsertRow(_, _)
InsertRow(sorted, row) ==
    IF sorted = <<>> THEN <<row>>
    ELSE IF MeanLess(row, sorted[Len(sorted)])
         THEN Append(InsertRow(SubSeq(sorted, 1, Len(sorted) - 1), row), sorted[Len(sorted)])
         ELSE Append(sorted, row)

RECURSIVE SortRowsFrom(_, _, _)
SortRowsFrom(organized, k, sorted) ==
    IF k \notin DOMAIN organized THEN sorted
    ELSE SortRowsFrom(organized, k + 1, InsertRow(sorted, organized[k]))

sorted_rows(organized) == SortRowsFrom(organized, 0, <<>>)

\* answers[question_num] = letter
Put(dict, key, value) == (key :> value) @@ dict

\* Mutant: the right column numbered from row_idx + 25.
RightQuestion_OffByOne(row_idx) == row_idx + RowsPerColumn

\* Mutant: the left column numbered from row_idx.
LeftQuestion_FromZero(row_idx) == row_idx

\* The question number a row side writes: row_idx + 1 on the left,
\* row_idx + 26 on the right (row_idx counts from 0).
LeftQuestion(row_idx) == row_idx + 1
RightQuestion(row_idx) == row_idx + RightColumnOffset

\* "if len(row_bubbles) < 4: continue"
RowSkipped(row_bubbles) == Len(row_bubbles) < 4

\* Mutant: a side without a marked bubble is written as "unanswered".
ProcessSide_Explicit(dict, side, question_num, limit, threshold) ==
    IF Len(side) >= 4 /\ question_num <= limit
    THEN LET sorted == SortByCoord(side, 1)
             hits == {i \in 1..4 : sorted[i].fill_ratio > threshold}
         IN  IF hits = {} THEN Put(dict, question_num, "unanswered")
             ELSE Put(dict, question_num, choices[Min(hits)])
    ELSE dict

\* Mutant: the "question_num <= 25" and "question_num <= 50" tests left out.
ProcessSide_NoLimit(dict, side, question_num, limit, threshold) ==
    IF Len(side) >= 4
    THEN LET sorted == SortByCoord(side, 1)
             hits == {i \in 1..4 : sorted[i].fill_ratio > threshold}
         IN  IF hits = {} THEN dict ELSE Put(dict, question_num, choices[Min(hits)])
    ELSE dict

\* Mutant: a side of three bubbles is read as well.
ProcessSide_ThreeSuffice(dict, side, question_num, limit, threshold) ==
    IF Len(side) >= 3 /\ question_num <= limit
    THEN LET sorted == SortByCoord(side, 1)
             n == IF Len(sorted) < 4 THEN Len(sorted) ELSE 4
             hits == {i \in 1..n : sorted[i].fill_ratio > threshold}
         IN  IF hits = {} THEN dict ELSE Put(dict, question_num, choices[Min(hits)])
    ELSE dict

\* One side of a row: the dict after the side's block.
ProcessSide(dict, side, question_num, limit, threshold) ==
    IF Len(side) >= 4 /\ question_num <= limit
    THEN LET sorted == SortByCoord(side, 1)
             i == FirstMarked(sorted, threshold)
         IN  IF i = 0 THEN dict ELSE Put(dict, question_num, choices[i])
    ELSE dict

\* One iteration of the loop over enumerate(sorted_rows).
ProcessRow(dict, row_bubbles, row_idx, threshold) ==
    IF RowSkipped(row_bubbles) THEN dict
    ELSE LET afterLeft == ProcessSide(dict, left_bubbles(row_bubbles),
                                      LeftQuestion(row_idx), RowsPerColumn, threshold)
         IN  ProcessSide(afterLeft, right_bubbles(row_bubbles),
                         RightQuestion(row_idx), NumQuestions, threshold)

RECURSIVE MapRows(_, _, _, _)
MapRows(rows, i, dict, threshold) ==
    IF i > Len(rows) THEN dict
    ELSE LET after == ProcessRow(dict, rows[i], i - 1, threshold)
         IN  \* the test has the iteration's dict evaluated before the next one starts
             IF DOMAIN after = {} \/ TRUE
             THEN MapRows(rows, i + 1, after, threshold)
             ELSE after

\* Mutant: the rows that are skipped are not counted.
map_bubbles_to_questions_Uncounted(organized, threshold) ==
    MapRows(SelectSeq(sorted_rows(organized), LAMBDA r : ~RowSkipped(r)),
            1, EmptyDict, threshold)

\* Mutant: the dict is not created anew, the one the previous call on the
\* object returned is filled further.
NewAnswers_Kept == answers

\* "answers = {}": the dict of the call, local to it.
NewAnswers == EmptyDict

map_bubbles_to_questions(organized, threshold) ==
    MapRows(sorted_rows(organized), 1, NewAnswers, threshold)

-----------------------------------------------------------------------------
(* MCQAnswerSheetScanner.print_results, save_results *)

\* answers.get(question, "No answer detected") for question in range(1, 51)
print_results(dict) ==
    [question \in 1..NumQuestions |->
        IF question \in DOMAIN dict THEN dict[question] ELSE "No answer detected"]

\* Mutant: the keys written with two digits, as the sheet prints the numbers.
JsonKey_Padded(question) ==
    IF question < 10 THEN "0" \o ToString(question) ELSE ToString(question)

\* json.dump writes the dict's integer keys as strings.
JsonKey(question) == ToString(question)

json_dump(dict) == {<<JsonKey(q), dict[q]>> : q \in DOMAIN dict}

NoFile == [exists |-> FALSE, content |-> {}]

\* None, where an exception or a message may stand
None == "None"

\* None, where an image may stand
NoImage == [source |-> None]

\* Before any scan, crop, save or export: no call logged, no straightened
\* image, no output file, no CSV file.
RestStart ==
    /\ history = <<>>
    /\ straightened_image = NoImage
    /\ output_file = NoImage
    /\ raised = None
    /\ calls = <<>>
    /\ csv_file = [exists |-> FALSE, rows |-> <<>>]
    /\ exported = <<>>
    /\ export_message = None

-----------------------------------------------------------------------------
(* Template geometry: where a generated sheet's bubbles are found *)

\* MCQSheetGenerator.create_mcq_grid: the circle centre of option i (0-based)
\* of question q (0-based), in sheet pixels.
ColumnWidth == (SheetWidth - 2 * SheetMargin) \div 2

CircleCenterX(q, i) ==
    SheetMargin + (q \div RowsPerColumn) * ColumnWidth + OptionOffsetX
        + i * OptionSpacing + CircleRadius

CircleCenterY(q) == GridStartY + (q % RowsPerColumn) * QuestionSpacing + CircleRadius

\* ImageStraightener: the generated sheet taken as the photograph and
\* rectified from the inset corners (margin 50) to the 800 x 1000 frame is an
\* axis-aligned scaling; a centre is detected at the pixel below the scaled
\* point.
RectifyX(x) == ((x - FallbackMargin) * OutputWidth) \div (SheetWidth - 2 * FallbackMargin)
RectifyY(y) == ((y - FallbackMargin) * OutputHeight) \div (SheetHeight - 2 * FallbackMargin)

\* The centre of option o (1..4) of question q (1..50) in the rectified image.
SlotCenter(q, o) == <<RectifyX(CircleCenterX(q - 1, o - 1)), RectifyY(CircleCenterY(q - 1))>>

\* A printed circle as detect_bubbles' contour filter sees it, and two marks
\* it rejects: a speck (too small) and a dash (too elongated).
BubbleContour(center, fill) ==
    [area |-> 400, circ |-> 85,
     bbox |-> <<center[1] - 11, center[2] - 11, 22, 22>>, fill |-> fill]

Speck == [area |-> 30, circ |-> 80, bbox |-> <<300, 300, 6, 6>>, fill |-> 100]
Dash == [area |-> 300, circ |-> 70, bbox |-> <<300, 400, 40, 10>>, fill |-> 100]

-----------------------------------------------------------------------------
(* __main__ of mcq_scanner.py, one scanner object, one image *)

\* scanner.bubble_threshold = args.threshold
SetThreshold ==
    /\ pc = "created"
    /\ \E t \in Thresholds : bubble_threshold' = t
    /\ pc' = "configured"
    /\ UNCHANGED <<image, scanVars, spc, corners, restVars>>

\* scan_answer_sheet: preprocess_image raises ValueError when cv2.imread
\* returns None; the except clause prints the error and returns {}.
ScanFailed ==
    /\ pc = "configured"
    /\ ~image.readable
    /\ scan_error' = TRUE
    /\ answers' = EmptyDict
    /\ pc' = "scanned"
    /\ UNCHANGED <<image, bubble_threshold, bubbles, organized_bubbles,
                   main_error, printed, results_file, spc, corners, restVars>>

\* scan_answer_sheet on a readable image: detect, organize (which sorts the
\* bubble list in place), map.
Scan ==
    /\ pc = "configured"
    /\ image.readable
    /\ LET detected == detect_bubbles(image.contours)
           organized == organize_bubbles_by_rows(detected)
       IN  /\ bubbles' = SortByCoord(detected, 2)
           /\ organized_bubbles' = organized
           /\ answers' = map_bubbles_to_questions(organized, bubble_threshold)
    /\ pc' = "scanned"
    /\ UNCHANGED <<image, bubble_threshold, scan_error, main_error, printed,
                   results_file, spc, corners, restVars>>

PrintResults ==
    /\ pc = "scanned"
    /\ printed' = print_results(answers)
    /\ pc' = "printed"
    /\ UNCHANGED <<image, bubble_threshold, bubbles, organized_bubbles, answers,
                   scan_error, main_error, results_file, spc, corners, restVars>>

\* save_results writes the file; when the output directory or file cannot be
\* written the OSError reaches "except Exception" of __main__.
SaveResults ==
    /\ pc = "printed"
    /\ \/ /\ results_file' = [exists |-> TRUE, content |-> json_dump(answers)]
          /\ UNCHANGED main_error
       \/ /\ main_error' = TRUE
          /\ UNCHANGED results_file
    /\ pc' = "saved"
    /\ UNCHANGED <<image, bubble_threshold, bubbles, organized_bubbles, answers,
                   scan_error, printed, spc, corners, restVars>>

NextScan == SetThreshold \/ ScanFailed \/ Scan \/ PrintResults \/ SaveResults

\* The state after MCQAnswerSheetScanner() with the image file img on disk.
ScannerStart(img) ==
    /\ image = img
    /\ bubble_threshold = DefaultThreshold
    /\ pc = "created"
    /\ bubbles = <<>>
    /\ organized_bubbles = EmptyDict
    /\ answers = EmptyDict
    /\ scan_error = FALSE
    /\ main_error = FALSE
    /\ printed = <<>>
    /\ results_file = NoFile
    /\ spc = "unused"
    /\ corners = <<>>
    /\ RestStart

Unreadable == [readable |-> FALSE, contours |-> <<>>, width |-> 0, height |-> 0]

Readable(contours) ==
    [readable |-> TRUE, contours |-> contours, width |-> OutputWidth, height |-> OutputHeight]

-----------------------------------------------------------------------------
(* Input family "cluster": a few contours at free positions *)

MaxBubbles == 3

\* y-coordinates at and around one and two tolerances below the first
ClusterYs == {100, 119, 120, 121, 141}
ClusterXs == {200, 400, 600}

ClusterContours ==
    {BubbleContour(<<x, y>>, 0) : x \in ClusterXs, y \in ClusterYs} \cup {Speck, Dash}

\* Contours are connected components: their bounding boxes do not overlap.
Disjoint(c, d) ==
    \/ c.bbox[1] + c.bbox[3] <= d.bbox[1] \/ d.bbox[1] + d.bbox[3] <= c.bbox[1]
    \/ c.bbox[2] + c.bbox[4] <= d.bbox[2] \/ d.bbox[2] + d.bbox[4] <= c.bbox[2]

InitCluster ==
    \/ ScannerStart(Unreadable)
    \/ \E n \in 0..MaxBubbles : \E cs \in [1..n -> ClusterContours] :
          /\ \A i, j \in 1..n : i < j => Disjoint(cs[i], cs[j])
          /\ ScannerStart(Readable(cs))

SpecCluster == InitCluster /\ [][NextScan]_vars

-----------------------------------------------------------------------------
(* Sheets laid out on the template grid *)

Slots == (1..NumQuestions) \X (1..Len(choices))

\* The row of the grid (1..25) question q is printed on.
GridRow(q) == ((q - 1) % RowsPerColumn) + 1

\* The slots in the order findContours reports them: bottom row first.
SlotOrder ==
    [n \in 1..(NumQuestions * Len(choices)) |->
        <<NumQuestions - ((n - 1) \div Len(choices)), ((n - 1) % Len(choices)) + 1>>]

\* The contours of a sheet that shows the grid rows gridRows, without the
\* slots in missing, marks[slot] being the fill ratio of a marked slot and
\* every other bubble empty (fill ratio 0).
GridContours(gridRows, marks, missing) ==
    LET shown == SelectSeq(SlotOrder,
                           LAMBDA s : GridRow(s[1]) \in gridRows /\ s \notin missing)
    IN  [n \in DOMAIN shown |->
            BubbleContour(SlotCenter(shown[n][1], shown[n][2]),
                          IF shown[n] \in DOMAIN marks THEN marks[shown[n]] ELSE 0)]

\* Fill ratios at, just below and just above a threshold.
Around(t) == {t - 1, t, t + 1}

-----------------------------------------------------------------------------
(* Input family "sheet": the full grid with one marked bubble *)

\* The mark is absent (0), at the default threshold or just above it.
SheetFills == {0, DefaultThreshold, DefaultThreshold + 1}

InitSheet ==
    \/ ScannerStart(Unreadable)
    \/ \E slot \in Slots : \E f \in SheetFills :
          ScannerStart(Readable(GridContours(1..RowsPerColumn,
                                             [s \in {slot} |-> f], {})))

SpecSheet == InitSheet /\ [][NextScan]_vars

-----------------------------------------------------------------------------
(* Input family "rows": the top rows of the grid, one question's four      *)
(* bubbles filled freely                                                   *)

MaxRows == 2

QuestionsOnRows(k) == {q \in 1..NumQuestions : GridRow(q) \in 1..k}

InitRows ==
    \/ ScannerStart(Unreadable)
    \/ \E k \in 1..MaxRows : \E q \in QuestionsOnRows(k) :
       \E t \in Thresholds : \E fills \in [1..Len(choices) -> {0} \cup Around(t)] :
          ScannerStart(Readable(GridContours(1..k,
                                             [s \in {q} \X (1..Len(choices)) |-> fills[s[2]]],
                                             {})))

SpecRows == InitRows /\ [][NextScan]_vars

-----------------------------------------------------------------------------
(* Input family "malformed": the top rows of the grid, bubbles of one row  *)
(* undetected (some, not all), one option of every question marked         *)

RowSlots(r) == {s \in Slots : GridRow(s[1]) = r}

\* Every question is marked at the option its number and the shift select.
ShiftedMarks(shift) ==
    [s \in {p \in Slots : p[2] = ((p[1] + shift) % Len(choices)) + 1} |->
        DefaultThreshold + 1]

InitMalformed ==
    \/ ScannerStart(Unreadable)
    \/ \E k \in 2..MaxRows : \E m \in 1..k :
       \E missing \in (SUBSET RowSlots(m)) \ {{}, RowSlots(m)} :
       \E shift \in 0..(Len(choices) - 1) :
          ScannerStart(Readable(GridContours(1..k, ShiftedMarks(shift), missing)))

SpecMalformed == InitMalformed /\ [][NextScan]_vars

-----------------------------------------------------------------------------
(* A session: several scan_answer_sheet calls on one scanner object *)

MaxScans == 3

\* What scan_answer_sheet returns for the file img with the object's
\* threshold t.
scan_answer_sheet(img, t) ==
    IF img.readable
    THEN map_bubbles_to_questions(organize_bubbles_by_rows(detect_bubbles(img.contours)), t)
    ELSE EmptyDict

\* The files of the session: one that cannot be read, the first grid row
\* empty, with option A of question 1 filled, and with option B of question
\* 26 filled just to the default threshold.
SessionImages ==
    {Unreadable,
     Readable(GridContours({1}, EmptyDict, {})),
     Readable(GridContours({1}, [s \in {<<1, 1>>} |-> DefaultThreshold + 1], {})),
     Readable(GridContours({1}, [s \in {<<1 + RowsPerColumn, 2>>} |-> DefaultThreshold], {}))}

\* scanner.scan_answer_sheet(image_path) on the object, for the first time or
\* again; the call is logged with the threshold before and after it.
ScanAnswerSheet ==
    /\ pc \in {"configured", "scanned"}
    /\ Len(history) < MaxScans
    /\ \E img \in SessionImages :
          /\ image' = img
          /\ answers' = scan_answer_sheet(img, bubble_threshold)
          /\ scan_error' = ~img.readable
          /\ IF img.readable
             THEN LET detected == detect_bubbles(img.contours)
                  IN  /\ bubbles' = SortByCoord(detected, 2)
                      /\ organized_bubbles' = organize_bubbles_by_rows(detected)
             ELSE UNCHANGED <<bubbles, organized_bubbles>>
    /\ UNCHANGED bubble_threshold
    /\ history' = Append(history, [image |-> image', threshold |-> bubble_threshold,
                                   answers |-> answers',
                                   threshold_after |-> bubble_threshold'])
    /\ pc' = "scanned"
    /\ UNCHANGED <<main_error, printed, results_file, spc, corners,
                   protocolVars, csv_file, exported, export_message>>

\* "scanner.bubble_threshold = ..." by the caller between two scans.
ChangeThreshold ==
    /\ pc = "scanned"
    /\ \E t \in Thresholds \ {bubble_threshold} : bubble_threshold' = t
    /\ UNCHANGED <<image, pc, scanVars, spc, corners, restVars>>

NextSession == SetThreshold \/ ScanAnswerSheet \/ ChangeThreshold

SpecSession == ScannerStart(Unreadable) /\ [][NextSession]_vars

-----------------------------------------------------------------------------
(* export_answers_to_csv of json_to_csv_exporter.py *)

MaxExports == 3

\* json.load of a file json.dump wrote: the dict with the file's string keys.
json_load(content) ==
    [k \in {p[1] : p \in content} |-> (CHOOSE p \in content : p[1] = k)[2]]

\* answers_dict.get(str(i), 'NA') for i in range(1, 51)
ordered_answers(answers_dict) ==
    [i \in 1..NumQuestions |->
        IF ToString(i) \in DOMAIN answers_dict THEN answers_dict[ToString(i)] ELSE "NA"]

\* [f'Q{i}' for i in range(1, 51)]
headers == [i \in 1..NumQuestions |-> "Q" \o ToString(i)]

\* "if not file_exists or os.path.getsize(csv_file) == 0"
NeedsHeader(file) == ~file.exists \/ file.rows = <<>>

\* Mutant: the file opened with mode 'w'.
Written_Truncating(rows, new_rows) == new_rows

\* The file opened with mode 'a': what is written goes after what is there.
Written(rows, new_rows) == rows \o new_rows

\* The JSON file is there and the CSV file can be opened: header if needed,
\* then the answers row.
ExportAnswersToCsv ==
    /\ results_file.exists
    /\ Len(exported) < MaxExports
    /\ LET row == ordered_answers(json_load(results_file.content))
           new_rows == IF NeedsHeader(csv_file) THEN <<headers, row>> ELSE <<row>>
       IN  /\ csv_file' = [exists |-> TRUE, rows |-> Written(csv_file.rows, new_rows)]
           /\ exported' = Append(exported, row)
    /\ export_message' = "Answers exported successfully!"
    /\ UNCHANGED <<image, bubble_threshold, pc, scanVars, spc, corners,
                   history, protocolVars>>

\* "except FileNotFoundError": the function returns before it touches the CSV.
ExportJsonNotFound ==
    /\ ~results_file.exists
    /\ export_message' = "Error: not found!"
    /\ UNCHANGED <<image, bubble_threshold, pc, scanVars, spc, corners,
                   history, protocolVars, csv_file, exported>>

\* open(csv_file, 'a') raises (the file is locked or its directory missing):
\* "except Exception" prints and the function returns.
ExportWriteError ==
    /\ results_file.exists
    /\ export_message' = "Error writing to CSV"
    /\ UNCHANGED <<image, bubble_threshold, pc, scanVars, spc, corners,
                   history, protocolVars, csv_file, exported>>

\* The answer mappings whose JSON files the exporter is run on.
ExportedMappings ==
    {EmptyDict, [q \in {5} |-> "C"], [q \in {1, NumQuestions} |-> IF q = 1 THEN "A" ELSE "D"]}

\* Between two exports the JSON file is replaced by another scan's results,
\* or removed.
ReplaceJson ==
    /\ \E f \in {NoFile} \cup {[exists |-> TRUE, content |-> json_dump(m)] :
                                  m \in ExportedMappings} :
          /\ f # results_file
          /\ results_file' = f
    /\ UNCHANGED <<image, bubble_threshold, pc, bubbles, organized_bubbles, answers,
                   scan_error, main_error, printed, spc, corners, restVars>>

NextExport == ExportAnswersToCsv \/ ExportJsonNotFound \/ ExportWriteError \/ ReplaceJson

\* No scanner or straightener at work; the CSV file is absent, or there and
\* empty.
InitExport ==
    /\ image = Unreadable
    /\ bubble_threshold = DefaultThreshold
    /\ pc = "unused"
    /\ bubbles = <<>>
    /\ organized_bubbles = EmptyDict
    /\ answers = EmptyDict
    /\ scan_error = FALSE
    /\ main_error = FALSE
    /\ printed = <<>>
    /\ results_file = NoFile
    /\ spc = "unused"
    /\ corners = <<>>
    /\ history = <<>>
    /\ straightened_image = NoImage
    /\ output_file = NoImage
    /\ raised = None
    /\ calls = <<>>
    /\ csv_file \in {[exists |-> FALSE, rows |-> <<>>], [exists |-> TRUE, rows |-> <<>>]}
    /\ exported = <<>>
    /\ export_message = None

SpecExport == InitExport /\ [][NextExport]_vars

-----------------------------------------------------------------------------
(* Input family "five": the top rows of a sheet generated with 5 options   *)
(* per question, one question's five bubbles filled freely                 *)

\* ['A', 'B', 'C', 'D', 'E'][:options_per_question] with the largest
\* options_per_question that has an effect
option_letters == <<"A", "B", "C", "D", "E">>

\* The contours of the grid rows 1..k of such a sheet, bottom row first,
\* marks[slot] being the fill ratio of a filled bubble.
FiveOptionContours(k, marks) ==
    LET n == Len(option_letters)
        order == [i \in 1..(NumQuestions * n) |->
                     <<NumQuestions - ((i - 1) \div n), ((i - 1) % n) + 1>>]
        shown == SelectSeq(order, LAMBDA s : GridRow(s[1]) \in 1..k)
    IN  [i \in DOMAIN shown |->
            BubbleContour(SlotCenter(shown[i][1], shown[i][2]),
                          IF shown[i] \in DOMAIN marks THEN marks[shown[i]] ELSE 0)]

InitFive ==
    \/ ScannerStart(Unreadable)
    \/ \E k \in 1..MaxRows : \E q \in QuestionsOnRows(k) :
       \E fills \in [1..Len(option_letters) -> {0, DefaultThreshold + 1}] :
          ScannerStart(Readable(FiveOptionContours(
              k, [s \in {q} \X (1..Len(option_letters)) |-> fills[s[2]]])))

SpecFive == InitFive /\ [][NextScan]_vars

-----------------------------------------------------------------------------
(* Input family "column": the top rows of a sheet with the left column of  *)
(* questions only, one row showing any four or five of its eight bubbles   *)

\* Every bubble filled.
AllMarked == [s \in Slots |-> DefaultThreshold + 1]

InitColumn ==
    \/ ScannerStart(Unreadable)
    \/ \E k \in 1..MaxRows : \E m \in 1..k :
       \E shown \in {S \in SUBSET RowSlots(m) : Cardinality(S) \in {4, 5}} :
       \E marks \in {AllMarked} \cup {ShiftedMarks(shift) : shift \in 0..(Len(choices) - 1)} :
          ScannerStart(Readable(GridContours(
              1..k, marks,
              (RowSlots(m) \ shown)
                  \cup {s \in Slots : GridRow(s[1]) # m /\ s[1] > RowsPerColumn})))

SpecColumn == InitColumn /\ [][NextScan]_vars

-----------------------------------------------------------------------------
(* Scanner and exporter on one results file: a sheet is scanned, printed   *)
(* and saved, and export_answers_to_csv is run on the file                 *)

\* The questions answered on the sheets of this family: numbers of one and
\* of two digits, of both columns.
RoundTripQuestions == {1, 9, 10, 26, 50}

\* The full grid with the questions in qs marked, each at the option its
\* number and the shift select.
MarkedSheet(qs, shift) ==
    GridContours(1..RowsPerColumn,
                 [s \in {p \in DOMAIN ShiftedMarks(shift) : p[1] \in qs} |->
                     ShiftedMarks(shift)[s]],
                 {})

InitRoundTrip ==
    \/ ScannerStart(Unreadable)
    \/ \E qs \in (SUBSET RoundTripQuestions) \cup {1..NumQuestions} :
       \E shift \in 0..1 :
          ScannerStart(Readable(MarkedSheet(qs, shift)))

NextRoundTrip ==
    NextScan \/ ExportAnswersToCsv \/ ExportJsonNotFound \/ ExportWriteError

SpecRoundTrip == InitRoundTrip /\ [][NextRoundTrip]_vars

-----------------------------------------------------------------------------
(* Input family "shift": the full grid with one row undetected or with a   *)
(* line of circles above it, one option of every question marked           *)

\* A line of circles one question spacing above the first grid row.
ExtraRowY == RectifyY(GridStartY - QuestionSpacing + CircleRadius)

\* Its first n circles, at the option positions of questions 1 and 26; the
\* first one is filled.
ExtraRow(n) ==
    LET xs == [i \in 1..(2 * Len(choices)) |->
                  IF i <= Len(choices) THEN SlotCenter(1, i)[1]
                  ELSE SlotCenter(1 + RowsPerColumn, i - Len(choices))[1]]
    IN  [i \in 1..n |->
            BubbleContour(<<xs[i], ExtraRowY>>, IF i = 1 THEN DefaultThreshold + 1 ELSE 0)]

\* How many circles of the extra line are detected: none, too few for a row
\* to be read, all.
ExtraRowSizes == {0, 3, 2 * Len(choices)}

InitShift ==
    \/ ScannerStart(Unreadable)
    \/ \E extra \in ExtraRowSizes : \E m \in 0..RowsPerColumn :
       \E shift \in 0..(Len(choices) - 1) :
          ScannerStart(Readable(GridContours((1..RowsPerColumn) \ {m},
                                             ShiftedMarks(shift), {})
                                \o ExtraRow(extra)))

SpecShift == InitShift /\ [][NextScan]_vars

-----------------------------------------------------------------------------
(* ImageStraightener.detect_corner_markers *)

\* "100 < area < 2000" and "0.7 < aspect_ratio < 1.3" with aspect_ratio = w / h
IsMarkerShaped(c) ==
    /\ MinMarkerArea < c.area /\ c.area < MaxMarkerArea
    /\ 7 * c.bbox[4] < 10 * c.bbox[3] /\ 10 * c.bbox[3] < 13 * c.bbox[4]

MarkerCenter(c) == <<c.bbox[1] + (c.bbox[3] \div 2), c.bbox[2] + (c.bbox[4] \div 2)>>

\* "(center_x < margin or center_x > width - margin) and
\*  (center_y < margin or center_y > height - margin)"
NearCorner(p, width, height) ==
    /\ (p[1] < CornerRegionMargin \/ p[1] > width - CornerRegionMargin)
    /\ (p[2] < CornerRegionMargin \/ p[2] > height - CornerRegionMargin)

\* The list "corners" after the loop over the contours.
MarkerCandidates(img) ==
    LET kept == SelectSeq(img.contours,
                          LAMBDA c : IsMarkerShaped(c)
                                     /\ NearCorner(MarkerCenter(c), img.width, img.height))
    IN  [i \in DOMAIN kept |-> MarkerCenter(kept[i])]

\* sorted() of a list of (x, y) tuples: by x, then by y.
TupleLess(p, q) == p[1] < q[1] \/ (p[1] = q[1] /\ p[2] < q[2])

RECURSIVE InsertPoint(_, _)
InsertPoint(sorted, p) ==
    IF sorted = <<>> THEN <<p>>
    ELSE IF TupleLess(p, sorted[Len(sorted)])
         THEN Append(InsertPoint(SubSeq(sorted, 1, Len(sorted) - 1), p), sorted[Len(sorted)])
         ELSE Append(sorted, p)

RECURSIVE SortedPoints(_)
SortedPoints(s) ==
    IF s = <<>> THEN <<>>
    ELSE InsertPoint(SortedPoints(SubSeq(s, 1, Len(s) - 1)), s[Len(s)])

top_corners(cs, height) == SortedPoints(SelectSeq(cs, LAMBDA c : c[2] < height \div 2))
bottom_corners(cs, height) == SortedPoints(SelectSeq(cs, LAMBDA c : ~(c[2] < height \div 2)))

\* Mutant: "or" for "and".
EnoughMarkers_Either(top, bottom) == Len(top) >= 2 \/ Len(bottom) >= 2

\* "if len(top_corners) >= 2 and len(bottom_corners) >= 2"
EnoughMarkers(top, bottom) == Len(top) >= 2 /\ Len(bottom) >= 2

FallbackCorners(width, height) ==
    <<<<FallbackMargin, FallbackMargin>>, <<width - FallbackMargin, FallbackMargin>>,
      <<width - FallbackMargin, height - FallbackMargin>>,
      <<FallbackMargin, height - FallbackMargin>>>>

detect_corner_markers(img) ==
    LET cs == SortedPoints(MarkerCandidates(img))
        top == top_corners(cs, img.height)
        bottom == bottom_corners(cs, img.height)
    IN  IF Len(cs) >= 4 /\ EnoughMarkers(top, bottom)
        THEN <<top[1], top[Len(top)], bottom[Len(bottom)], bottom[1]>>
        ELSE FallbackCorners(img.width, img.height)

-----------------------------------------------------------------------------
(* One ImageStraightener object *)

\* An entry of the log of calls: the method, who called it (process_image or
\* the user of the object), what it raised, and the image it produced
\* (crop_and_straighten) or wrote to output_path (save_straightened_image).
Call(method, by, exception, img) ==
    [method |-> method, by |-> by, raised |-> exception, image |-> img]

\* process_image, first step: corners = self.detect_corner_markers()
DetectCornerMarkers ==
    /\ spc = "constructed"
    /\ corners' = detect_corner_markers(image)
    /\ spc' = "detected"
    /\ calls' = Append(calls, Call("detect_corner_markers", "process_image", None, NoImage))
    /\ UNCHANGED <<image, bubble_threshold, pc, scanVars, history,
                   straightened_image, output_file, raised,
                   csv_file, exported, export_message>>

NextStraighten == DetectCornerMarkers

\* The state after ImageStraightener(image_path): the constructor raises for
\* an unreadable image, so the object exists only with a readable one.
StraightenerStart(img) ==
    /\ image = img
    /\ bubble_threshold = DefaultThreshold
    /\ pc = "unused"
    /\ bubbles = <<>>
    /\ organized_bubbles = EmptyDict
    /\ answers = EmptyDict
    /\ scan_error = FALSE
    /\ main_error = FALSE
    /\ printed = <<>>
    /\ results_file = NoFile
    /\ spc = "constructed"
    /\ corners = <<>>
    /\ RestStart

-----------------------------------------------------------------------------
(* Input family "markers": a photograph with a few dark blobs *)

MaxContours == 4

PhotoSizes == {<<800, 1000>>, <<400, 300>>}

\* Where a blob's centre may lie: two places in each corner region, the middle
\* of the top edge and the middle of the image.
BlobCenters(width, height) ==
    {<<30, 30>>, <<60, 70>>, <<width - 30, 40>>, <<width - 70, 30>>,
     <<width - 40, height - 30>>, <<width - 30, height - 60>>,
     <<30, height - 40>>, <<60, height - 30>>,
     <<width \div 2, 30>>, <<width \div 2, height \div 2>>}

\* A square blob of marker size, and one too large to be a marker.
MarkerContour(center) ==
    [area |-> 400, circ |-> 78,
     bbox |-> <<center[1] - 10, center[2] - 10, 20, 20>>, fill |-> 100]

LargeBlob(center) ==
    [area |-> 2500, circ |-> 78,
     bbox |-> <<center[1] - 25, center[2] - 25, 50, 50>>, fill |-> 100]

Photo(size, contours) ==
    [readable |-> TRUE, contours |-> contours, width |-> size[1], height |-> size[2]]

InitMarkers ==
    \E size \in PhotoSizes : \E n \in 0..MaxContours :
    \E cs \in [1..n -> {MarkerContour(p) : p \in BlobCenters(size[1], size[2])}
                        \cup {LargeBlob(<<30, 30>>)}] :
        /\ \A i, j \in 1..n : i < j => Disjoint(cs[i], cs[j])
        /\ StraightenerStart(Photo(size, cs))

SpecMarkers == InitMarkers /\ [][NextStraighten]_vars

-----------------------------------------------------------------------------
(* ImageStraightener: crop_and_straighten, save_straightened_image and     *)
(* process_image, called in any order on one object                        *)

MaxCalls == 4

\* The image cv2.warpPerspective returns: the source image seen through the
\* transform of the four corners, of the size asked for.
crop_and_straighten(img, cs, size) ==
    [source |-> img, corners |-> cs, width |-> size[1], height |-> size[2]]

\* Mutant: the test for a missing straightened image left out.
NothingToSave_Never(straightened) == FALSE

\* "if self.straightened_image is None"
NothingToSave(straightened) == straightened = NoImage

\* The corner lists a user of the object passes: the inset corners, the image
\* corners, and a list of three points, which cv2.getPerspectiveTransform
\* rejects.
CornerInputs(img) ==
    {FallbackCorners(img.width, img.height),
     <<<<0, 0>>, <<img.width, 0>>, <<img.width, img.height>>, <<0, img.height>>>>,
     <<<<0, 0>>, <<img.width, 0>>, <<img.width, img.height>>>>}

OutputSizes == {<<OutputWidth, OutputHeight>>, <<400, 500>>}

\* crop_and_straighten, as the second step of process_image (with the corners
\* the first step returned) or called by the user of the object.
CropAndStraighten ==
    /\ spc # "cropped"
    /\ Len(calls) < MaxCalls
    /\ \E cs \in (IF spc = "detected" THEN {corners} ELSE CornerInputs(image)) :
       \E size \in OutputSizes :
          IF Len(cs) = 4
          THEN /\ straightened_image' = crop_and_straighten(image, cs, size)
               /\ raised' = None
               /\ spc' = IF spc = "detected" THEN "cropped" ELSE spc
               /\ calls' = Append(calls, Call("crop_and_straighten",
                                              IF spc = "detected" THEN "process_image" ELSE "user",
                                              None, straightened_image'))
          ELSE /\ raised' = "cv2.error"
               /\ calls' = Append(calls, Call("crop_and_straighten", "user", "cv2.error", NoImage))
               /\ UNCHANGED <<straightened_image, spc>>
    /\ UNCHANGED <<image, bubble_threshold, pc, scanVars, corners, history,
                   output_file, csv_file, exported, export_message>>

\* save_straightened_image, as the last step of process_image or called by
\* the user of the object; cv2.imwrite succeeds or not.
SaveStraightenedImage ==
    /\ spc # "detected"
    /\ Len(calls) < MaxCalls
    /\ LET by == IF spc = "cropped" THEN "process_image" ELSE "user"
       IN  \E success \in BOOLEAN :
              IF NothingToSave(straightened_image) \/ ~success
              THEN /\ raised' = "ValueError"
                   /\ calls' = Append(calls, Call("save_straightened_image", by,
                                                  "ValueError", NoImage))
                   /\ spc' = IF spc = "cropped" THEN "failed" ELSE spc
                   /\ UNCHANGED output_file
              ELSE /\ output_file' = straightened_image
                   /\ raised' = None
                   /\ calls' = Append(calls, Call("save_straightened_image", by,
                                                  None, straightened_image))
                   /\ spc' = IF spc = "cropped" THEN "processed" ELSE spc
    /\ UNCHANGED <<image, bubble_threshold, pc, scanVars, corners, history,
                   straightened_image, csv_file, exported, export_message>>

NextProtocol == DetectCornerMarkers \/ CropAndStraighten \/ SaveStraightenedImage

\* The photographs: two without a marker, one with the four markers.
ProtocolPhotos ==
    {Photo(size, <<>>) : size \in PhotoSizes}
    \cup {Photo(<<800, 1000>>,
                <<MarkerContour(<<30, 30>>), MarkerContour(<<770, 40>>),
                  MarkerContour(<<760, 970>>), MarkerContour(<<30, 960>>)>>)}

InitProtocol == \E photo \in ProtocolPhotos : StraightenerStart(photo)

SpecProtocol == InitProtocol /\ [][NextProtocol]_vars

-----------------------------------------------------------------------------
(* Reading a scanned sheet's image and result *)

\* The scan of a readable image has returned.
Scanned == pc \in {"scanned", "printed", "saved"} /\ image.readable

Printed == pc \in {"printed", "saved"} /\ image.readable

SlotCenterOf == [s \in Slots |-> SlotCenter(s[1], s[2])]

SlotCenters == {SlotCenterOf[s] : s \in Slots}

\* The slot whose centre is c.
SlotAt == [c \in SlotCenters |-> CHOOSE s \in Slots : SlotCenterOf[s] = c]

\* What the image shows on the grid: for each slot at which it has a bubble,
\* that bubble's fill ratio.
GridReading ==
    LET cs == image.contours
        on == {i \in DOMAIN cs : IsBubble(cs[i]) /\ BubbleOf(cs[i]).center \in SlotCenters}
        seen == {<<SlotAt[BubbleOf(cs[i]).center], cs[i].fill>> : i \in on}
        levels == {cs[i].fill : i \in on}
    IN  [s \in {p[1] : p \in seen} |-> CHOOSE f \in levels : <<s, f>> \in seen]

\* Every contour of the image is a bubble at a slot of the grid, one per slot.
OnGrid ==
    LET cs == image.contours
    IN  /\ \A i \in DOMAIN cs :
              IsBubble(cs[i]) /\ BubbleOf(cs[i]).center \in SlotCenters
        /\ Cardinality({BubbleOf(cs[i]).center : i \in DOMAIN cs}) = Len(cs)

\* The options of question q that reading g shows above threshold t.
MarkedOptions(g, q, t) ==
    {o \in 1..Len(choices) : <<q, o>> \in DOMAIN g /\ g[<<q, o>>] > t}

\* Reading g shows all four bubbles of question q.
WellFormed(g, q) == \A o \in 1..Len(choices) : <<q, o>> \in DOMAIN g

\* The slots whose bubble reading g shows above threshold t.
MarkedSlots(g, t) == {s \in DOMAIN g : g[s] > t}

-----------------------------------------------------------------------------
(* C1 *)

-----------------------------------------------------------------------------
(* C2 *)

\* C2: first match wins.  For every question that shows its four bubbles, the
\* reported letter is that of the lowest option whose fill ratio exceeds the
\* threshold, whatever the fill ratios of the later options; with no option
\* above the threshold the question gets no letter.
C2_FirstMatchWins ==
    LET g == GridReading
    IN  (Scanned /\ OnGrid) =>
            \A q \in {s[1] : s \in DOMAIN g} :
                WellFormed(g, q) =>
                    LET marked == MarkedOptions(g, q, bubble_threshold)
                    IN  IF marked = {} THEN q \notin DOMAIN answers
                        ELSE /\ q \in DOMAIN answers
                             /\ answers[q] = choices[Min(marked)]

\* A question with options B and D both above the threshold was reported "B".
C2_Witness ==
    /\ Scanned /\ OnGrid
    /\ \E q \in 1..NumQuestions :
          /\ WellFormed(GridReading, q)
          /\ MarkedOptions(GridReading, q, bubble_threshold) = {2, 4}
          /\ q \in DOMAIN answers /\ answers[q] = "B"

-----------------------------------------------------------------------------
(* C3 *)

\* C3: the marked test is strict.  A bubble whose fill ratio equals the
\* threshold, or is just below it, is never the reported answer, and its
\* question is unanswered when no other bubble of it is above the threshold;
\* a bubble just above the threshold is reported unless an earlier option is
\* above the threshold too.
C3_StrictThreshold ==
    LET g == GridReading
        t == bubble_threshold
    IN  (Scanned /\ OnGrid) =>
            \A q \in {s[1] : s \in DOMAIN g} : \A o \in 1..Len(choices) :
                WellFormed(g, q) =>
                    /\ g[<<q, o>>] \in {t, t - 1} =>
                          /\ ~(q \in DOMAIN answers /\ answers[q] = choices[o])
                          /\ (\A p \in 1..Len(choices) : g[<<q, p>>] <= t)
                                => q \notin DOMAIN answers
                    /\ (/\ g[<<q, o>>] = t + 1
                        /\ \A p \in 1..(o - 1) : g[<<q, p>>] <= t) =>
                          (q \in DOMAIN answers /\ answers[q] = choices[o])

\* A question with a bubble at the threshold and one just below it, and none
\* above, came out unanswered.
C3_Witness ==
    LET g == GridReading
        t == bubble_threshold
    IN  /\ Scanned /\ OnGrid
        /\ \E q \in 1..NumQuestions :
              /\ WellFormed(g, q)
              /\ \E o \in 1..Len(choices) : g[<<q, o>>] = t
              /\ \E o \in 1..Len(choices) : g[<<q, o>>] = t - 1
              /\ \A o \in 1..Len(choices) : g[<<q, o>>] <= t
              /\ q \notin DOMAIN answers

-----------------------------------------------------------------------------
(* C4 *)

\* C4: on a full grid with exactly one bubble above the threshold, at slot
\* (q, o), and every other bubble empty, the scan gives question q the letter
\* of option o and no other question a letter; print_results reports every
\* other question as "No answer detected".
C4_SingleMark ==
    LET g == GridReading
        marked == MarkedSlots(g, bubble_threshold)
    IN  (Scanned /\ OnGrid /\ DOMAIN g = Slots /\ Cardinality(marked) = 1
            /\ \A s \in Slots \ marked : g[s] = 0) =>
            \A s \in marked :
                /\ DOMAIN answers = {s[1]}
                /\ answers[s[1]] = choices[s[2]]
                /\ Printed => \A q \in (1..NumQuestions) \ {s[1]} :
                                  printed[q] = "No answer detected"

\* The spec's case: the only mark is option C of question 5, reported as "C".
C4_Witness ==
    LET g == GridReading
    IN  /\ Printed /\ OnGrid /\ DOMAIN g = Slots
        /\ MarkedSlots(g, bubble_threshold) = {<<5, 3>>}
        /\ \A s \in Slots \ {<<5, 3>>} : g[s] = 0
        /\ answers[5] = "C"

-----------------------------------------------------------------------------
(* C5, C6: row clustering *)

\* The rows of organized_bubbles that hold bubble b.
RowsHolding(b) ==
    {k \in DOMAIN organized_bubbles :
        \E i \in DOMAIN organized_bubbles[k] : organized_bubbles[k][i] = b}

SameRow(b1, b2) == RowsHolding(b1) \cap RowsHolding(b2) # {}

\* The smallest y of the row that holds bubble b: the y of the bubble that
\* opened the row.
RowTopY(b) ==
    LET k == CHOOSE r \in RowsHolding(b) : TRUE
    IN  Min({organized_bubbles[k][i].center[2] : i \in DOMAIN organized_bubbles[k]})

\* C5 as stated: any two detected bubbles whose y-coordinates differ by less
\* than the tolerance are in the same row, whatever other bubbles are present.
C5_CloseBubblesShareRow ==
    Scanned =>
        \A i, j \in DOMAIN bubbles :
            Abs(bubbles[i].center[2] - bubbles[j].center[2]) < Tolerance =>
                SameRow(bubbles[i], bubbles[j])

\* C5, amended: two detected bubbles whose y-coordinates differ by less than
\* the tolerance are in the same row whenever the upper one has the smallest
\* y of its row (as it has when no bubble lies above the two within the
\* tolerance); every detected bubble is in some row.
C5_CloseToRowTopShareRow ==
    Scanned =>
        \A i, j \in DOMAIN bubbles :
            /\ RowsHolding(bubbles[i]) # {}
            /\ (/\ bubbles[i].center[2] = RowTopY(bubbles[i])
                /\ bubbles[j].center[2] >= bubbles[i].center[2]
                /\ bubbles[j].center[2] - bubbles[i].center[2] < Tolerance) =>
                  SameRow(bubbles[i], bubbles[j])

\* Two bubbles 19 px apart were put in one row that the upper one opened.
C5_Witness ==
    /\ Scanned
    /\ \E i, j \in DOMAIN bubbles :
          /\ bubbles[j].center[2] - bubbles[i].center[2] = Tolerance - 1
          /\ bubbles[i].center[2] = RowTopY(bubbles[i])
          /\ SameRow(bubbles[i], bubbles[j])

\* C6: any two detected bubbles whose y-coordinates differ by more than the
\* tolerance are in different rows; a bubble exactly the tolerance below the
\* bubble that opened a row stays in that row (the comparison is strict).
C6_FarBubblesSplit ==
    Scanned =>
        \A i, j \in DOMAIN bubbles :
            /\ Abs(bubbles[i].center[2] - bubbles[j].center[2]) > Tolerance =>
                  ~SameRow(bubbles[i], bubbles[j])
            /\ (/\ bubbles[i].center[2] = RowTopY(bubbles[i])
                /\ bubbles[j].center[2] - bubbles[i].center[2] = Tolerance) =>
                  SameRow(bubbles[i], bubbles[j])

\* Of three bubbles, two exactly 20 px apart share a row and one 21 px below
\* the first is in another row.
C6_Witness ==
    /\ Scanned
    /\ \E i, j, k \in DOMAIN bubbles :
          /\ bubbles[j].center[2] - bubbles[i].center[2] = Tolerance
          /\ bubbles[k].center[2] - bubbles[i].center[2] = Tolerance + 1
          /\ SameRow(bubbles[i], bubbles[j])
          /\ ~SameRow(bubbles[i], bubbles[k])

-----------------------------------------------------------------------------
(* C7, C8: corner markers *)

\* The branch of detect_corner_markers that returns detected markers is
\* taken: 4 or more candidates, 2 or more in each half of the image.
MarkersAccepted ==
    LET cs == MarkerCandidates(image)
        half == image.height \div 2
    IN  /\ Len(cs) >= 4
        /\ Cardinality({i \in DOMAIN cs : cs[i][2] < half}) >= 2
        /\ Cardinality({i \in DOMAIN cs : cs[i][2] >= half}) >= 2

AtLeft(p) == p[1] < CornerRegionMargin
AtRight(p) == p[1] > image.width - CornerRegionMargin
AtTop(p) == p[2] < CornerRegionMargin
AtBottom(p) == p[2] > image.height - CornerRegionMargin

\* C7 as stated: detect_corner_markers returns 4 points, and detected markers
\* are one per sheet corner in the order top-left, top-right, bottom-right,
\* bottom-left.
C7_OnePerCorner ==
    spc = "detected" =>
        /\ Len(corners) = 4
        /\ MarkersAccepted =>
              /\ corners[1][2] < image.height \div 2 /\ corners[2][2] < image.height \div 2
              /\ corners[3][2] >= image.height \div 2 /\ corners[4][2] >= image.height \div 2
              /\ AtLeft(corners[1]) /\ AtTop(corners[1])
              /\ AtRight(corners[2]) /\ AtTop(corners[2])
              /\ AtRight(corners[3]) /\ AtBottom(corners[3])
              /\ AtLeft(corners[4]) /\ AtBottom(corners[4])
              /\ corners[1][1] < corners[2][1]
              /\ corners[4][1] < corners[3][1]

\* C8: when fewer than 4 contours pass the marker filters, or those that pass
\* are not 2 or more in the top half and 2 or more in the bottom half,
\* detect_corner_markers returns (50,50), (w-50,50), (w-50,h-50), (50,h-50).
C8_FallbackCorners ==
    (spc = "detected" /\ ~MarkersAccepted) =>
        corners = <<<<50, 50>>, <<image.width - 50, 50>>,
                    <<image.width - 50, image.height - 50>>, <<50, image.height - 50>>>>

\* Four contours passed the filters, three of them in the top half, and the
\* inset corners were returned.
C8_Witness ==
    LET cs == MarkerCandidates(image)
    IN  /\ spc = "detected"
        /\ Len(cs) = 4
        /\ Cardinality({i \in DOMAIN cs : cs[i][2] < image.height \div 2}) = 3
        /\ corners[3] = <<image.width - 50, image.height - 50>>

-----------------------------------------------------------------------------
(* C9: an unreadable image *)

\* C9 as stated: when the image cannot be loaded, __main__ does not go on
\* with a result (it prints and saves none) and no results file is written.
C9_NoOutputWhenUnreadable ==
    ~image.readable =>
        /\ pc \notin {"printed", "saved"}
        /\ ~results_file.exists

-----------------------------------------------------------------------------
(* C10: malformed rows *)

\* The grid rows of which reading g shows a bubble.
RowsShown(g) == {GridRow(s[1]) : s \in DOMAIN g}

\* Grid row r shows fewer than four bubbles of one of its two questions.
Malformed(g, r) == ~WellFormed(g, r) \/ ~WellFormed(g, r + RowsPerColumn)

\* The answers of the sheet of reading g with every malformed row shown
\* whole and empty.
RepairedAnswers(g, t) ==
    LET kept == {s \in DOMAIN g : ~Malformed(g, GridRow(s[1])) /\ g[s] > 0}
        repaired == GridContours(RowsShown(g), [s \in kept |-> g[s]], {})
    IN  map_bubbles_to_questions(organize_bubbles_by_rows(detect_bubbles(repaired)), t)

\* C10: when scan_answer_sheet returns, a row that shows fewer than four
\* bubbles, or fewer than four of one of its questions, has not stopped the
\* scan (no error was caught); the question of each such side gets
\* no letter, and the questions of every other row get the numbers and
\* letters they get when the malformed row is whole and empty.
C10_MalformedRowSkipped ==
    LET g == GridReading
        t == bubble_threshold
        expected == RepairedAnswers(g, t)
    IN  (pc = "scanned" /\ image.readable /\ OnGrid) =>
            /\ ~scan_error
            /\ \A q \in 1..NumQuestions :
                  /\ (GridRow(q) \in RowsShown(g) /\ ~WellFormed(g, q)) =>
                        q \notin DOMAIN answers
                  /\ (GridRow(q) \in RowsShown(g) /\ ~Malformed(g, GridRow(q))) =>
                        /\ q \in DOMAIN answers <=> q \in DOMAIN expected
                        /\ q \in DOMAIN answers => answers[q] = expected[q]

\* The first row shows only three bubbles, and a question of the second row
\* was answered under its own number.
C10_Witness ==
    LET g == GridReading
    IN  /\ Scanned /\ OnGrid
        /\ Cardinality({s \in DOMAIN g : GridRow(s[1]) = 1}) = 3
        /\ DOMAIN answers \cap {2, 2 + RowsPerColumn} # {}

-----------------------------------------------------------------------------
(* C11: one writer per question *)

\* The assignments "answers[question_num] = choices[i]" that the sides of
\* row row_bubbles, at position row_idx of sorted_rows, make with threshold t.
RowWrites(row_bubbles, row_idx, t) ==
    IF RowSkipped(row_bubbles) THEN {}
    ELSE LET l == ProcessSide(EmptyDict, left_bubbles(row_bubbles),
                              LeftQuestion(row_idx), RowsPerColumn, t)
             r == ProcessSide(EmptyDict, right_bubbles(row_bubbles),
                              RightQuestion(row_idx), NumQuestions, t)
         IN  {[row |-> row_idx, side |-> "left", question |-> q, letter |-> l[q]] :
                  q \in DOMAIN l}
             \cup {[row |-> row_idx, side |-> "right", question |-> q, letter |-> r[q]] :
                      q \in DOMAIN r}

\* All assignments of the scan that produced organized_bubbles.
ScanWrites ==
    LET rows == sorted_rows(organized_bubbles)
    IN  UNION {RowWrites(rows[i], i - 1, bubble_threshold) : i \in DOMAIN rows}

OptionLetters == {"A", "B", "C", "D", "E"}

\* C11: when a scan returns, every question number of the mapping has one
\* letter, the letter is one of A..E, every assignment made by a left side has
\* a number in 1..25 and every one made by a right side a number in 26..50,
\* no two row sides assign the same number, and the mapping holds exactly
\* what the row sides assigned.
C11_OneWriterPerQuestion ==
    LET writes == ScanWrites
    IN  (pc = "scanned" /\ image.readable) =>
            /\ \A q \in DOMAIN answers : answers[q] \in OptionLetters
            /\ \A w \in writes :
                  /\ w.side = "left" => w.question \in 1..RowsPerColumn
                  /\ w.side = "right" => w.question \in (RowsPerColumn + 1)..NumQuestions
                  /\ w.question \in DOMAIN answers /\ answers[w.question] = w.letter
            /\ \A w1, w2 \in writes : w1.question = w2.question => w1 = w2
            /\ DOMAIN answers = {w.question : w \in writes}

\* A sheet of 26 rows, all of them whole, was scanned: questions 25 and 50
\* were assigned by the 25th row and the 26th row assigned nothing.
C11_Witness ==
    /\ pc = "scanned" /\ image.readable
    /\ Len(sorted_rows(organized_bubbles)) = RowsPerColumn + 1
    /\ \A r \in DOMAIN organized_bubbles : Len(organized_bubbles[r]) = 2 * Len(choices)
    /\ {RowsPerColumn, NumQuestions} \subseteq DOMAIN answers
    /\ \A w \in ScanWrites : w.row < RowsPerColumn

-----------------------------------------------------------------------------
(* C12: determinism and statelessness *)

-----------------------------------------------------------------------------
(* C14: the CSV file *)

\* C14: after any sequence of exports to a CSV file that was absent or empty,
\* the file holds nothing when no export succeeded, and otherwise one header
\* row Q1..Q50 followed by the rows of the exports that succeeded, in call
\* order, each of 50 cells; and no step changes or removes a row that is in
\* the file, a step adds at most a header and one row.
C14_AppendOnlySingleHeader ==
    /\ [](/\ csv_file.rows = IF exported = <<>> THEN <<>> ELSE <<headers>> \o exported
          /\ \A i \in DOMAIN exported : DOMAIN exported[i] = 1..NumQuestions
          /\ \A i \in DOMAIN csv_file.rows : i > 1 => csv_file.rows[i] # headers)
    /\ [][/\ Len(csv_file'.rows) - Len(csv_file.rows) \in 0..2
          /\ \A i \in DOMAIN csv_file.rows : csv_file'.rows[i] = csv_file.rows[i]]_vars

\* Three exports of three different mappings succeeded: the file holds the
\* header and three rows, the first row with "C" in cell 5 and "NA" elsewhere.
C14_Witness ==
    /\ Len(exported) = 3
    /\ Len(csv_file.rows) = 4
    /\ csv_file.rows[1] = headers
    /\ csv_file.rows[2][5] = "C" /\ csv_file.rows[2][6] = "NA"
    /\ csv_file.rows[3] # csv_file.rows[2] /\ csv_file.rows[4] # csv_file.rows[3]

-----------------------------------------------------------------------------
(* C15: when a new row starts *)

\* C15 as stated: walking the detected bubbles in ascending y order, a bubble
\* starts a new row exactly when its y exceeds the y of the bubble before it
\* by more than the tolerance.
C15_NewRowOnGapFromPrevious ==
    Scanned =>
        \A i \in 2..Len(bubbles) :
            ~SameRow(bubbles[i - 1], bubbles[i]) <=>
                bubbles[i].center[2] - bubbles[i - 1].center[2] > Tolerance

\* C15, amended: a bubble starts a new row exactly when its y exceeds the y
\* of the first bubble of the current row (the row of the bubble before it) by
\* more than the tolerance; bubbles that all lie within the tolerance of the
\* topmost one form a single row.
C15_NewRowOnGapFromRowTop ==
    Scanned =>
        /\ \A i \in 2..Len(bubbles) :
              ~SameRow(bubbles[i - 1], bubbles[i]) <=>
                  bubbles[i].center[2] - RowTopY(bubbles[i - 1]) > Tolerance
        /\ (bubbles # <<>> /\ \A i \in DOMAIN bubbles :
                bubbles[i].center[2] - bubbles[1].center[2] <= Tolerance) =>
              DOMAIN organized_bubbles = {0}

\* Three bubbles with gaps of 19 and 2 px: the third is 21 px below the first
\* and starts the second row.
C15_Witness ==
    /\ Scanned /\ Len(bubbles) = 3
    /\ bubbles[2].center[2] - bubbles[1].center[2] = Tolerance - 1
    /\ bubbles[3].center[2] - bubbles[2].center[2] = 2
    /\ SameRow(bubbles[1], bubbles[2])
    /\ ~SameRow(bubbles[2], bubbles[3])

-----------------------------------------------------------------------------
(* C16: question identity is positional *)

\* Left of this x a bubble belongs to the left column of the sheet.
ColumnBoundaryX == SlotCenter(1 + RowsPerColumn, 1)[1]

\* C16: on a sheet whose rows each lie on one y, let a row's position n be
\* its place among the rows that show any bubble, from the top, rows too
\* short to be read included.  When a scan returns, the mapping holds
\* exactly, for every whole row at a position n <= 25 and each marked bubble
\* of it, the option letter of that bubble under number n (left column) or
\* n + 25 (right column); rows at positions above 25 supply nothing; and a
\* question printed as q is reported under q plus the number of rows detected
\* above the grid minus the number of grid rows above it that went undetected.
C16_PositionalIdentity ==
    LET cs == image.contours
        b == [i \in DOMAIN cs |-> BubbleOf(cs[i])]
        ys == {b[i].center[2] : i \in DOMAIN cs}
        position == [y \in ys |-> Cardinality({v \in ys : v <= y})]
        size == [y \in ys |-> Cardinality({i \in DOMAIN cs : b[i].center[2] = y})]
        left(i) == b[i].center[1] < ColumnBoundaryX
        option(i) == 1 + Cardinality({j \in DOMAIN cs :
                                         /\ b[j].center[2] = b[i].center[2]
                                         /\ left(j) = left(i)
                                         /\ b[j].center[1] < b[i].center[1]})
        number(i) == position[b[i].center[2]] + IF left(i) THEN 0 ELSE RowsPerColumn
        marked == {i \in DOMAIN cs : /\ cs[i].fill > bubble_threshold
                                      /\ size[b[i].center[2]] = 2 * Len(choices)}
        supplying == {i \in marked : position[b[i].center[2]] <= RowsPerColumn}
        above == Cardinality({y \in ys : y < SlotCenter(1, 1)[2]})
        undetected(q) == Cardinality({r \in 1..(GridRow(q) - 1) : SlotCenter(r, 1)[2] \notin ys})
    IN  (pc = "scanned" /\ image.readable) =>
            /\ DOMAIN answers = {number(i) : i \in supplying}
            /\ \A i \in supplying :
                  /\ answers[number(i)] = choices[option(i)]
                  /\ b[i].center \in SlotCenters =>
                        number(i) = SlotAt[b[i].center][1] + above - undetected(SlotAt[b[i].center][1])

\* Three circles were detected above the grid, too few to be read: the row
\* counts, question 1 and 26 get no answer, the bubble marked for the printed
\* question 7 is reported under number 8, and the 26th row supplies nothing.
C16_Witness ==
    LET cs == image.contours
        ys == {BubbleOf(cs[i]).center[2] : i \in DOMAIN cs}
    IN  /\ pc = "scanned" /\ image.readable
        /\ Cardinality(ys) = RowsPerColumn + 1
        /\ Cardinality({i \in DOMAIN cs : BubbleOf(cs[i]).center[2] = ExtraRowY}) = 3
        /\ DOMAIN answers = ((2..RowsPerColumn) \cup ((RowsPerColumn + 2)..NumQuestions))
        /\ \E i \in DOMAIN cs :
              /\ BubbleOf(cs[i]).center \in SlotCenters
              /\ cs[i].fill > bubble_threshold
              /\ SlotAt[BubbleOf(cs[i]).center][1] = 7
              /\ answers[8] = choices[SlotAt[BubbleOf(cs[i]).center][2]]

-----------------------------------------------------------------------------
(* C17: five options *)

\* The fill ratio the image shows at option o of question q, -1 when it
\* shows no bubble there.
FillAt(q, o) ==
    LET cs == image.contours
        at == {i \in DOMAIN cs : IsBubble(cs[i]) /\ BubbleOf(cs[i]).center = SlotCenter(q, o)}
    IN  IF at = {} THEN -1 ELSE cs[CHOOSE i \in at : TRUE].fill

\* C17 as stated: on a sheet with 5 options per question, the five bubbles of
\* a question are read left to right as A, B, C, D, E: a question with a
\* bubble above the threshold gets the letter of the first such bubble, and a
\* question whose only bubble above the threshold is the fifth gets "E".
C17_FifthOptionIsE ==
    Scanned =>
        \A q \in 1..NumQuestions :
            LET marked == {o \in DOMAIN option_letters : FillAt(q, o) > bubble_threshold}
            IN  (FillAt(q, Len(option_letters)) >= 0 /\ marked # {}) =>
                    /\ q \in DOMAIN answers
                    /\ answers[q] = option_letters[Min(marked)]

-----------------------------------------------------------------------------
(* C18: the straightener's call order *)

\* The calls before call i in which crop_and_straighten completed.
CropsBefore(i) ==
    {j \in 1..(i - 1) : calls[j].method = "crop_and_straighten" /\ calls[j].raised = None}

\* The calls in which save_straightened_image wrote the file.
Saves ==
    {i \in DOMAIN calls :
        calls[i].method = "save_straightened_image" /\ calls[i].raised = None}

Last(S) == CHOOSE i \in S : \A j \in S : j <= i

\* C18: on one ImageStraightener, every save_straightened_image call made
\* before any crop_and_straighten call completed raised ValueError and wrote
\* nothing; every later save either wrote the image the most recent
\* completed crop_and_straighten produced or raised ValueError (cv2.imwrite
\* failed) and wrote nothing; the output file holds what the last save that
\* wrote has written, and nothing when there was none; and the calls
\* process_image makes are, in this order and with no other call between
\* them, detect_corner_markers, crop_and_straighten, save_straightened_image.
C18_CallOrderProtocol ==
    LET mine == {i \in DOMAIN calls : calls[i].by = "process_image"}
    IN  /\ \A i \in DOMAIN calls :
              calls[i].method = "save_straightened_image" =>
                  IF CropsBefore(i) = {}
                  THEN calls[i].raised = "ValueError" /\ calls[i].image = NoImage
                  ELSE \/ calls[i].raised = "ValueError" /\ calls[i].image = NoImage
                       \/ /\ calls[i].raised = None
                          /\ calls[i].image # NoImage
                          /\ calls[i].image = calls[Last(CropsBefore(i))].image
        /\ output_file = IF Saves = {} THEN NoImage ELSE calls[Last(Saves)].image
        /\ mine # {} =>
              LET first == CHOOSE i \in mine : \A j \in mine : i <= j
                  steps == <<"detect_corner_markers", "crop_and_straighten",
                             "save_straightened_image">>
              IN  /\ mine = first..(first + Cardinality(mine) - 1)
                  /\ Cardinality(mine) <= 3
                  /\ \A k \in 1..Cardinality(mine) : calls[first + k - 1].method = steps[k]
                  /\ spc \in {"processed", "failed"} => Cardinality(mine) = 3

\* The user saved before any crop (ValueError, no file); then process_image
\* ran its three steps and the file holds the image its crop produced.
C18_Witness ==
    /\ Len(calls) = 4
    /\ calls[1].method = "save_straightened_image" /\ calls[1].raised = "ValueError"
    /\ calls[2].method = "detect_corner_markers"
    /\ calls[3].method = "crop_and_straighten"
    /\ calls[4].method = "save_straightened_image" /\ calls[4].by = "process_image"
    /\ spc = "processed"
    /\ output_file = straightened_image /\ output_file # NoImage

-----------------------------------------------------------------------------
(* C19: the rows partition the bubbles *)

\* How often bubble b occurs in the list s.
Occurrences(b, s) == Cardinality({i \in DOMAIN s : s[i] = b})

\* C19: when a scan returns, the rows of organized_bubbles hold every
\* detected bubble exactly as often as it was detected and nothing else; the
\* row indices are 0..n-1; every row is non-empty and in non-decreasing x
\* order; every bubble of a row has a smaller y than every bubble of the next
\* row; and with no bubble detected there is no row.
C19_RowsPartitionBubbles ==
    LET rows == organized_bubbles
    IN  Scanned =>
            /\ \E n \in 0..Len(bubbles) : DOMAIN rows = 0..(n - 1)
            /\ \A k \in DOMAIN rows :
                  /\ rows[k] # <<>>
                  /\ \A i \in 1..(Len(rows[k]) - 1) :
                         rows[k][i].center[1] <= rows[k][i + 1].center[1]
                  /\ \A i \in DOMAIN rows[k] : \E j \in DOMAIN bubbles : bubbles[j] = rows[k][i]
                  /\ (k + 1) \in DOMAIN rows =>
                         \A i \in DOMAIN rows[k] : \A j \in DOMAIN rows[k + 1] :
                             rows[k][i].center[2] < rows[k + 1][j].center[2]
            /\ \A j \in DOMAIN bubbles :
                  /\ Cardinality(RowsHolding(bubbles[j])) = 1
                  /\ \A k \in RowsHolding(bubbles[j]) :
                         Occurrences(bubbles[j], rows[k]) = Occurrences(bubbles[j], bubbles)
            /\ bubbles = <<>> => rows = EmptyDict

\* Three bubbles came out as two rows, the first row holding two bubbles of
\* which the left one is the lower one.
C19_Witness ==
    /\ Scanned /\ Len(bubbles) = 3
    /\ DOMAIN organized_bubbles = {0, 1}
    /\ Len(organized_bubbles[0]) = 2
    /\ organized_bubbles[0][1].center[2] > organized_bubbles[0][2].center[2]
    /\ organized_bubbles[0][1].center[1] < organized_bubbles[0][2].center[1]

-----------------------------------------------------------------------------
(* C20: a side needs four bubbles *)

RECURSIVE SetSum(_)
SetSum(S) == IF S = {} THEN 0 ELSE LET x == Min(S) IN x + SetSum(S \ {x})

\* The x-coordinates of the bubbles reading g shows on grid row r (on the
\* grid no two bubbles of a row have the same x).
RowXs(g, r) == {SlotCenterOf[s][1] : s \in {p \in DOMAIN g : GridRow(p[1]) = r}}

\* Those left of the row's mean x, and the others.
LeftOfMean(xs) == {x \in xs : x * Cardinality(xs) < SetSum(xs)}
RightOfMean(xs) == xs \ LeftOfMean(xs)

\* C20: on a sheet that shows its grid rows from the first one on, a
\* question gets an answer only if its row has at least 4 bubbles on the
\* question's side of the row's mean x; a row of exactly 4 bubbles (at
\* different x) gives neither of its questions an answer, whatever the fill
\* ratios; and a sheet that shows the left column only gives the empty mapping.
C20_SideNeedsFourBubbles ==
    LET g == GridReading
    IN  (pc = "scanned" /\ image.readable /\ OnGrid) =>
            /\ \A q \in DOMAIN answers :
                  LET xs == RowXs(g, GridRow(q))
                  IN  IF q <= RowsPerColumn THEN Cardinality(LeftOfMean(xs)) >= 4
                      ELSE Cardinality(RightOfMean(xs)) >= 4
            /\ \A r \in RowsShown(g) :
                  Cardinality(RowXs(g, r)) = 4 =>
                      r \notin DOMAIN answers /\ (r + RowsPerColumn) \notin DOMAIN answers
            /\ (\A s \in DOMAIN g : s[1] <= RowsPerColumn) => answers = EmptyDict

\* A sheet of two rows with the left column only and every bubble filled was
\* scanned, and the mapping is empty.
C20_Witness ==
    LET g == GridReading
    IN  /\ pc = "scanned" /\ image.readable /\ OnGrid
        /\ DOMAIN g = {s \in Slots : s[1] \in {1, 2}}
        /\ \A s \in DOMAIN g : g[s] > bubble_threshold
        /\ answers = EmptyDict

-----------------------------------------------------------------------------
(* C21: from the scanner's results file to the CSV row *)

\* C21: when save_results has written the mapping the scan returned and
\* export_answers_to_csv has been run on that file, every row the exports
\* appended has 50 cells, cell i holding the mapping's letter for question i
\* when i is a key of the mapping and "NA" otherwise; the rows are the last
\* rows of the CSV file.
C21_RoundTrip ==
    exported # <<>> =>
        /\ pc = "saved" /\ results_file.exists
        /\ \A n \in DOMAIN exported :
              /\ DOMAIN exported[n] = 1..NumQuestions
              /\ \A i \in 1..NumQuestions :
                    exported[n][i] = IF i \in DOMAIN answers THEN answers[i] ELSE "NA"
              /\ csv_file.rows[Len(csv_file.rows) - Len(exported) + n] = exported[n]

\* A mapping with the keys 9, 10 and 50 only was saved and exported: the row
\* holds its letters in the cells 9, 10 and 50 and "NA" in the cells 1 and 5.
C21_Witness ==
    /\ exported # <<>>
    /\ DOMAIN answers = {9, 10, 50}
    /\ csv_file.rows[2][9] = answers[9]
    /\ csv_file.rows[2][10] = answers[10]
    /\ csv_file.rows[2][50] = answers[50]
    /\ csv_file.rows[2][1] = "NA" /\ csv_file.rows[2][5] = "NA"

====
